---------------------------- MODULE Spec2Model ----------------------------
(***************************************************************************)
(* Model of src/get_cardinal_data.py: the page fetcher with its one-file   *)
(* cache, the extraction of the "wikitable" tables into one data frame,    *)
(* the per-row eligibility flags and the column-name flattening.           *)
(*                                                                         *)
(* Text is a sequence of one-character strings, so that strip, replace and *)
(* lower act on characters as the Python string methods do.  An inline     *)
(* style is a sequence of lexical pieces ("background", ":", "#FFCCCC",    *)
(* ...); no piece occurs inside the concatenation of others, so a          *)
(* substring test on the text is a contiguous-subsequence test on pieces.  *)
(***************************************************************************)
EXTENDS Integers, Sequences, FiniteSets, TLC

VARIABLES
    cache,      \* CACHE_FILE: [exists, text]
    netCalls,   \* number of httpx.get calls made so far
    lastGood,   \* history: body of the most recent response that passed raise_for_status
    call,       \* what the last get_cardinals_data call did
    result,     \* what the last get_cardinals_data call returned or raised
    col,        \* flatten_col: the argument
    flat,       \* flatten_col: the values returned so far (first call, then a call on its result)
    row,        \* the <tr> whose style is inspected
    flag        \* the eligibility flags appended for row

vars == <<cache, netCalls, lastGood, call, result, col, flat, row, flag>>

\* ------------------------------------------------------------------ bounds
MaxHeaderLen == 4   \* characters in a column header, its levels together
MaxLevels == 2      \* levels of a multi-level column header
MaxStyleLen == 4    \* lexical pieces in an inline style
MaxTables == 2      \* <table> elements in a document
MaxDocRows == 3     \* <tr> elements in a document
MaxHeaderRows == 2  \* header rows of one table
MaxCalls == 3       \* get_cardinals_data calls in one run

\* ------------------------------------------------------------------- text
Chars == {"N", "a", "n", " "}

RECURSIVE StrsOfLen(_)
StrsOfLen(n) ==
    IF n = 0 THEN {<<>>}
    ELSE {Append(s, c) : s \in StrsOfLen(n - 1), c \in Chars}

StrsUpTo(r) == UNION {StrsOfLen(n) : n \in 0..r}

UpperCase ==
    <<"A", "B", "C", "D", "E", "F", "G", "H", "I", "J", "K", "L", "M",
      "N", "O", "P", "Q", "R", "S", "T", "U", "V", "W", "X", "Y", "Z">>

LowerCase ==
    <<"a", "b", "c", "d", "e", "f", "g", "h", "i", "j", "k", "l", "m",
      "n", "o", "p", "q", "r", "s", "t", "u", "v", "w", "x", "y", "z">>

\* str.lower on one character
LowerChar(c) ==
    IF \E k \in 1..Len(UpperCase) : UpperCase[k] = c
    THEN LowerCase[CHOOSE k \in 1..Len(UpperCase) : UpperCase[k] = c]
    ELSE c

Lower(s) == [i \in 1..Len(s) |-> LowerChar(s[i])]

\* str.replace(" ", "_")
ReplaceSpace(s) == [i \in 1..Len(s) |-> IF s[i] = " " THEN "_" ELSE s[i]]

\* str.strip(): drop the leading and the trailing whitespace
RECURSIVE LStrip(_)
LStrip(s) == IF s # <<>> /\ Head(s) = " " THEN LStrip(Tail(s)) ELSE s

RECURSIVE RStrip(_)
RStrip(s) ==
    IF s # <<>> /\ s[Len(s)] = " " THEN RStrip(SubSeq(s, 1, Len(s) - 1)) ELSE s

Strip(s) == RStrip(LStrip(s))

\* "_".join(parts)
RECURSIVE Join(_)
Join(parts) ==
    IF parts = <<>> THEN <<>>
    ELSE IF Len(parts) = 1 THEN parts[1]
    ELSE parts[1] \o <<"_">> \o Join(Tail(parts))

\* str(c).strip().replace(" ", "_").lower()
NormPart(s) == Lower(ReplaceSpace(Strip(s)))

NanStr == <<"n", "a", "n">>

\* A column label: a plain label (tuple = FALSE, one part) or a tuple of levels.
StrCol(s) == [tuple |-> FALSE, parts |-> <<s>>]

TupleCol(ps) == [tuple |-> TRUE, parts |-> ps]

KeepPartNotBlank(c) == Strip(c) # <<>> /\ c # NanStr

\* the generator's filter: "for c in col if c and c != 'nan'"
KeepPart(c) == c # <<>> /\ c # NanStr

flatten_col(c) ==
    IF c.tuple
    THEN LET kept == SelectSeq(c.parts, KeepPart)
         IN  Join([i \in 1..Len(kept) |-> NormPart(kept[i])])
    ELSE NormPart(c.parts[1])

\* the tuples of k levels and at most r characters
RECURSIVE TuplesWith(_, _)
TuplesWith(k, r) ==
    IF k = 0 THEN {<<>>}
    ELSE UNION {{<<s>> \o t : s \in StrsOfLen(n), t \in TuplesWith(k - 1, r - n)} :
                n \in 0..r}

\* the column headers of at most n levels and r characters
Cols(n, r) ==
    {StrCol(s) : s \in StrsUpTo(r)}
    \cup {TupleCol(t) : t \in UNION {TuplesWith(k, r) : k \in 0..n}}

\* ------------------------------------------------------- row eligibility
StylePieces == {"background", "-color", ":", " ", "#FFCCCC", "#ffcccc"}

RECURSIVE StylesOfLen(_)
StylesOfLen(n) ==
    IF n = 0 THEN {<<>>}
    ELSE {Append(s, p) : s \in StylesOfLen(n - 1), p \in StylePieces}

StylesUpTo(r) == UNION {StylesOfLen(n) : n \in 0..r}

\* the two literals of the test on the style
BackgroundMarker == <<"background", ":", "#FFCCCC">>

BackgroundColorMarker == <<"background", "-color", ":", "#FFCCCC">>

\* Python's "m in s", scanning s from position i
RECURSIVE FindFrom(_, _, _)
FindFrom(s, m, i) ==
    IF i + Len(m) - 1 > Len(s) THEN FALSE
    ELSE IF SubSeq(s, i, i + Len(m) - 1) = m THEN TRUE
    ELSE FindFrom(s, m, i + 1)

Contains(s, m) == FindFrom(s, m, 1)

\* row.get("style", "")
RowStyle(tr) == IF tr.hasStyle THEN tr.style ELSE <<>>

RowEligibleOnlyBackground(tr) == ~Contains(RowStyle(tr), BackgroundMarker)

\* the value appended to eligibility for one <tr>
RowEligible(tr) ==
    ~(\/ Contains(RowStyle(tr), BackgroundMarker)
      \/ Contains(RowStyle(tr), BackgroundColorMarker))

\* -------------------------------------------------------------- documents
(***************************************************************************)
(* A document is the sequence of its <table> elements in markup order; a   *)
(* table is marked when it carries the class "wikitable".  A table is the  *)
(* sequence of its <tr> elements, of one cell each: a <th> cell (header    *)
(* rows, which lead the table) or a <td> cell, with the cell's text and    *)
(* the row's style attribute.                                              *)
(***************************************************************************)
TR(cell, hasStyle, style, text) ==
    [cell |-> cell, hasStyle |-> hasStyle, style |-> style, text |-> text]

HeaderTexts == {<<"N">>, <<"n">>}

\* a data cell with text, and a blank one
CellTexts == {<<"a">>, <<>>}

RowStyles == {<<FALSE, <<>>>>, <<TRUE, BackgroundMarker>>}

HeaderTRs == {TR("th", st[1], st[2], t) : st \in RowStyles, t \in HeaderTexts}

BodyTRs == {TR("td", st[1], st[2], t) : st \in RowStyles, t \in CellTexts}

RECURSIVE SeqsOf(_, _)
SeqsOf(S, n) ==
    IF n = 0 THEN {<<>>}
    ELSE {Append(s, x) : s \in SeqsOf(S, n - 1), x \in S}

Min(a, b) == IF a < b THEN a ELSE b

\* the marked tables of n rows
MarkedTables(n) ==
    UNION {{[marked |-> TRUE, trs |-> hs \o bs] :
                hs \in SeqsOf(HeaderTRs, h), bs \in SeqsOf(BodyTRs, n - h)} :
           h \in 0..Min(n, MaxHeaderRows)}

\* A table without the class is never read: one row stands for its content.
UnmarkedTable == [marked |-> FALSE, trs |-> <<TR("td", FALSE, <<>>, <<"a">>)>>]

\* the tables of n rows
TablesOf(n) == MarkedTables(n) \cup (IF n = 1 THEN {UnmarkedTable} ELSE {})

\* the documents of at most k tables and r rows
RECURSIVE DocsWith(_, _)
DocsWith(k, r) ==
    IF k = 0 THEN {<<>>}
    ELSE {<<>>} \cup
         UNION {{<<t>> \o d : t \in TablesOf(n), d \in DocsWith(k - 1, r - n)} :
                n \in 1..r}

\* ------------------------------------------------------------- extraction
\* soup.find_all("table", {"class": "wikitable"})
find_tables(html) == SelectSeq(html, LAMBDA t : t.marked)

\* pandas takes the leading all-<th> rows of a table without <thead> as its header
RECURSIVE HeaderCount(_)
HeaderCount(trs) ==
    IF trs # <<>> /\ Head(trs).cell = "th" THEN 1 + HeaderCount(Tail(trs)) ELSE 0

\* pandas skips a data line whose only cell is blank
ParsedRow(t, j) == j > HeaderCount(t.trs) /\ Strip(t.trs[j].text) # <<>>

\* pd.read_html finds no table in markup that holds no text, and raises
ParseFails(t) == \A j \in 1..Len(t.trs) : Strip(t.trs[j].text) = <<>>

\* the column label of the table's one column: 0 without a header row, the
\* text of the one header row, the tuple of the texts of several
HeaderLabel(t) ==
    LET h == HeaderCount(t.trs)
    IN  IF h = 0 THEN StrCol(<<"0">>)
        ELSE IF h = 1 THEN StrCol(t.trs[1].text)
        ELSE TupleCol([j \in 1..h |-> t.trs[j].text])

\* df = pd.read_html(StringIO(str(table)))[0]; a record keeps the place of
\* its row in the markup: table i of the marked ones, row j of the table
read_html(t, i) ==
    LET idx == SelectSeq([j \in 1..Len(t.trs) |-> j], LAMBDA j : ParsedRow(t, j))
    IN  [columns |-> <<HeaderLabel(t)>>,
         rows |-> [k \in 1..Len(idx) |-> [tbl |-> i, tr |-> idx[k], eligible |-> <<>>]]]

\* the list built by the loop over table.find_all("tr")
RowFlags(t) == [j \in 1..Len(t.trs) |-> RowEligible(t.trs[j])]

\* eligibility = eligibility[1:]
Eligibility(t) == IF RowFlags(t) = <<>> THEN <<>> ELSE Tail(RowFlags(t))

\* the key pandas creates for df["eligible"]
EligibleLabel(t) ==
    LET h == HeaderCount(t.trs)
        name == <<"e", "l", "i", "g", "i", "b", "l", "e">>
    IN  IF h >= 2 THEN TupleCol([j \in 1..h |-> IF j = 1 THEN name ELSE <<>>])
        ELSE StrCol(name)

\* if len(eligibility) == len(df): df["eligible"] = eligibility
TableFrame(t, i) ==
    LET df == read_html(t, i)
        el == Eligibility(t)
    IN  IF Len(el) = Len(df.rows)
        THEN [columns |-> Append(df.columns, EligibleLabel(t)),
              rows |-> [k \in 1..Len(df.rows) |->
                            [df.rows[k] EXCEPT !.eligible = <<el[k]>>]]]
        ELSE df

\* cardinals_dfs after the loop over the tables
TableFrames(tables) == [i \in 1..Len(tables) |-> TableFrame(tables[i], i)]

RECURSIVE AppendNew(_, _)
AppendNew(cs, ds) ==
    IF ds = <<>> THEN cs
    ELSE IF \E k \in 1..Len(cs) : cs[k] = Head(ds) THEN AppendNew(cs, Tail(ds))
    ELSE AppendNew(Append(cs, Head(ds)), Tail(ds))

\* the columns of pd.concat: the frames' labels, each once, in order of appearance
RECURSIVE ConcatColumns(_)
ConcatColumns(dfs) ==
    IF dfs = <<>> THEN <<>>
    ELSE AppendNew(Head(dfs).columns, ConcatColumns(Tail(dfs)))

RECURSIVE ConcatRowsReversed(_)
ConcatRowsReversed(dfs) ==
    IF dfs = <<>> THEN <<>> ELSE ConcatRowsReversed(Tail(dfs)) \o Head(dfs).rows

\* the rows of pd.concat(..., ignore_index=True)
RECURSIVE ConcatRows(_)
ConcatRows(dfs) ==
    IF dfs = <<>> THEN <<>> ELSE Head(dfs).rows \o ConcatRows(Tail(dfs))

Raise(e) == [raised |-> e, columns |-> <<>>, rows |-> <<>>]

\* lines 43-65: the frame returned for the text html, or the exception raised
Extract(html) ==
    LET tables == find_tables(html)
        dfs == TableFrames(tables)
        cols == ConcatColumns(dfs)
    IN  IF \E i \in 1..Len(tables) : ParseFails(tables[i])
        THEN Raise("ValueError: No tables found")
        ELSE IF dfs = <<>>
        THEN Raise("ValueError: No objects to concatenate")
        ELSE [raised |-> "none",
              columns |-> [k \in 1..Len(cols) |-> flatten_col(cols[k])],
              rows |-> ConcatRows(dfs)]

\* ------------------------------------------------------------------ fetch
Statuses == {200, 301, 404}

\* what raise_for_status accepts
IsSuccess(status) == status \div 100 = 2

PageNoTables == <<UnmarkedTable>>

PageOneTable ==
    <<[marked |-> TRUE,
       trs |-> <<TR("th", FALSE, <<>>, <<"N">>),
                 TR("td", FALSE, <<>>, <<"a">>),
                 TR("td", TRUE, BackgroundMarker, <<"a">>),
                 TR("td", FALSE, <<>>, <<"a">>)>>]>>

PageTwoTables ==
    <<[marked |-> TRUE,
       trs |-> <<TR("th", FALSE, <<>>, <<"N">>), TR("td", FALSE, <<>>, <<"a">>)>>],
      [marked |-> TRUE,
       trs |-> <<TR("th", FALSE, <<>>, <<"n">>),
                 TR("td", TRUE, BackgroundColorMarker, <<"a">>)>>]>>

Bodies == {PageNoTables, PageOneTable, PageTwoTables}

\* what httpx.get gives: a response, or a transport failure
Responses ==
    {[kind |-> "response", status |-> s, body |-> b] : s \in Statuses, b \in Bodies}
    \cup {[kind |-> "error", status |-> 0, body |-> <<>>]}

\* ------------------------------------------------- idle values of variables
NoCache == [exists |-> FALSE, text |-> <<>>]

NoResp == [kind |-> "none", status |-> 0, body |-> <<>>]

NoCall ==
    [done |-> FALSE, n |-> 0, force |-> FALSE, before |-> NoCache, netBefore |-> 0,
     resp |-> NoResp, parsed |-> FALSE, html |-> <<>>]

NoResult == [raised |-> "none", columns |-> <<>>, rows |-> <<>>]

NoCol == StrCol(<<>>)

NoRow == [hasStyle |-> FALSE, style |-> <<>>]

\* ------------------------------------------------------------ flatten_col
InitFlatten ==
    /\ cache = NoCache /\ netCalls = 0 /\ lastGood = NoCache
    /\ call = NoCall /\ result = NoResult
    /\ col \in Cols(MaxLevels, MaxHeaderLen)
    /\ flat = <<>>
    /\ row = NoRow /\ flag = <<>>

\* flatten_col(col), then flatten_col on the name it returned
FlattenCol ==
    /\ Len(flat) < 2
    /\ flat' = Append(flat, flatten_col(IF flat = <<>> THEN col ELSE StrCol(flat[1])))
    /\ UNCHANGED <<cache, netCalls, lastGood, call, result, col, row, flag>>

NextFlatten == FlattenCol

SpecFlatten == InitFlatten /\ [][NextFlatten]_vars

\* ------------------------------------------------ the test on a row's style
InitStyle ==
    /\ cache = NoCache /\ netCalls = 0 /\ lastGood = NoCache
    /\ call = NoCall /\ result = NoResult
    /\ col = NoCol /\ flat = <<>>
    /\ row \in {NoRow} \cup {[hasStyle |-> TRUE, style |-> s] : s \in StylesUpTo(MaxStyleLen)}
    /\ flag = <<>>

\* one pass of the loop over the rows: lines 53-57
InspectRow ==
    /\ flag = <<>>
    /\ flag' = Append(flag, RowEligible(row))
    /\ UNCHANGED <<cache, netCalls, lastGood, call, result, col, flat, row>>

NextStyle == InspectRow

SpecStyle == InitStyle /\ [][NextStyle]_vars

\* ------------------------------------------------------ get_cardinals_data
NeedsFetchAlways(force, c) == TRUE

\* if force_refresh or not CACHE_FILE.exists()
NeedsFetch(force, c) == force \/ ~c.exists

\* resp.raise_for_status() returns
FetchOk(resp) == resp.kind = "response" /\ IsSuccess(resp.status)

CacheAfterFetchUnchecked(c, resp) ==
    IF resp.kind = "response" THEN [exists |-> TRUE, text |-> resp.body] ELSE c

CacheAfterFetchNotWritten(c, resp) == c

\* CACHE_FILE after lines 34-37
CacheAfterFetch(c, resp) ==
    IF FetchOk(resp) THEN [exists |-> TRUE, text |-> resp.body] ELSE c

FetchRaises(resp) ==
    IF resp.kind = "error" THEN "TransportError" ELSE "HTTPStatusError"

\* One call of get_cardinals_data(force_refresh); resp is what httpx.get
\* gives when the call fetches, NoResp when it does not.
GetCardinalsData(force, resp) ==
    /\ call.n < MaxCalls
    /\ NeedsFetch(force, cache) <=> resp # NoResp
    /\ IF NeedsFetch(force, cache)
       THEN /\ netCalls' = netCalls + 1
            /\ cache' = CacheAfterFetch(cache, resp)
            /\ lastGood' = IF FetchOk(resp)
                           THEN [exists |-> TRUE, text |-> resp.body]
                           ELSE lastGood
            /\ result' = IF FetchOk(resp) THEN Extract(resp.body)
                         ELSE Raise(FetchRaises(resp))
            /\ call' = [done |-> TRUE, n |-> call.n + 1, force |-> force,
                        before |-> cache, netBefore |-> netCalls, resp |-> resp,
                        parsed |-> FetchOk(resp),
                        html |-> IF FetchOk(resp) THEN resp.body ELSE <<>>]
       ELSE /\ UNCHANGED <<netCalls, cache, lastGood>>
            /\ result' = Extract(cache.text)
            /\ call' = [done |-> TRUE, n |-> call.n + 1, force |-> force,
                        before |-> cache, netBefore |-> netCalls, resp |-> resp,
                        parsed |-> TRUE, html |-> cache.text]
    /\ UNCHANGED <<col, flat, row, flag>>

Init ==
    /\ cache = NoCache /\ netCalls = 0 /\ lastGood = NoCache
    /\ call = NoCall /\ result = NoResult
    /\ col = NoCol /\ flat = <<>>
    /\ row = NoRow /\ flag = <<>>

Next ==
    \E force \in BOOLEAN, resp \in Responses \cup {NoResp} :
        GetCardinalsData(force, resp)

Spec == Init /\ [][Next]_vars

\* ----------------------------------- extraction of every bounded document
\* The page is in the cache; main() calls with force_refresh=False.
InitExtract ==
    /\ cache \in {[exists |-> TRUE, text |-> d] : d \in DocsWith(MaxTables, MaxDocRows)}
    /\ lastGood = cache
    /\ netCalls = 0
    /\ call = NoCall /\ result = NoResult
    /\ col = NoCol /\ flat = <<>>
    /\ row = NoRow /\ flag = <<>>

NextExtract == call.n = 0 /\ GetCardinalsData(FALSE, NoResp)

SpecExtract == InitExtract /\ [][NextExtract]_vars

\* ----------------------------------------------------------------- claims
Written(text) == [exists |-> TRUE, text |-> text]

\* the last call went to the network
Fetched == call.done /\ call.resp # NoResp

\* the last call's response had a 2xx status
GotSuccess ==
    /\ call.resp.kind = "response"
    /\ call.resp.status >= 200 /\ call.resp.status <= 299

\* C1: a call with force_refresh=false made while the cache file exists makes
\* no network call, parses exactly the text the cache held, and leaves the
\* cache as it was.
C1_CachedCallIsLocal ==
    (call.done /\ ~call.force /\ call.before.exists) =>
        /\ netCalls = call.netBefore
        /\ call.parsed /\ call.html = call.before.text
        /\ cache = call.before

C1_Witness ==
    /\ call.done /\ ~call.force /\ call.before.exists
    /\ call.n >= 2 /\ netCalls >= 1 /\ result.raised = "none"

\* C2 as stated: a call with force_refresh=true makes exactly one network call
\* and overwrites the cache with the response body, whatever the status.
C2_ForceAlwaysOverwrites ==
    (call.done /\ call.force) =>
        /\ netCalls = call.netBefore + 1
        /\ cache = Written(call.resp.body)

\* C2 amended: a call with force_refresh=true makes exactly one network call;
\* when the response has a success status the cache holds the response body
\* afterwards, and otherwise the call raises and the cache is as it was.
C2_ForceFetchesOnce ==
    (call.done /\ call.force) =>
        /\ netCalls = call.netBefore + 1
        /\ GotSuccess => cache = Written(call.resp.body)
        /\ ~GotSuccess =>
              /\ cache = call.before
              /\ result.raised \in {"HTTPStatusError", "TransportError"}

C2_Witness ==
    /\ call.done /\ call.force /\ GotSuccess
    /\ call.before.exists /\ call.before.text # call.resp.body
    /\ cache = Written(call.resp.body)

\* C10: the cache file, when it exists, holds the body of the most recent
\* successful fetch; a fetch that fails raises and leaves the cache absent or
\* unchanged; only a successful fetch creates or changes the cache.
C10_CacheIsLastGoodFetch ==
    /\ cache = lastGood
    /\ (Fetched /\ ~GotSuccess) =>
          /\ cache = call.before
          /\ result.raised \in {"HTTPStatusError", "TransportError"}
    /\ (call.done /\ cache # call.before) => (Fetched /\ GotSuccess)

C10_Witness ==
    /\ Fetched /\ ~GotSuccess /\ call.resp.kind = "response"
    /\ cache.exists /\ cache.text # call.resp.body

\* the style with its spaces dropped and its colour in upper case
RECURSIVE Canonical(_)
Canonical(s) ==
    IF s = <<>> THEN <<>>
    ELSE IF Head(s) = " " THEN Canonical(Tail(s))
    ELSE IF Head(s) = "#ffcccc" THEN <<"#FFCCCC">> \o Canonical(Tail(s))
    ELSE <<Head(s)>> \o Canonical(Tail(s))

\* the pieces of s from position i on spell m
SpellsAt(s, m, i) ==
    /\ i + Len(m) - 1 <= Len(s)
    /\ \A j \in 1..Len(m) : s[i + j - 1] = m[j]

Spells(s, m) == \E i \in 1..Len(s) : SpellsAt(s, m, i)

\* C4 as stated: a row is flagged ineligible exactly when its style has
\* #FFCCCC as background or background-color in any letter case or spacing.
C4_AnyVariantIneligible ==
    flag # <<>> =>
        (flag[1] = FALSE <=>
            /\ row.hasStyle
            /\ \/ Spells(Canonical(row.style), BackgroundMarker)
               \/ Spells(Canonical(row.style), BackgroundColorMarker))

\* C4 amended: a row is flagged ineligible exactly when its style contains
\* the literal text "background:#FFCCCC" or "background-color:#FFCCCC" (this
\* letter case, nothing between the pieces); every other row, a row without
\* a style attribute included, is flagged eligible.
C4_LiteralMarkerIneligible ==
    flag # <<>> =>
        /\ Len(flag) = 1
        /\ flag[1] = FALSE <=>
              /\ row.hasStyle
              /\ \/ Spells(row.style, BackgroundMarker)
                 \/ Spells(row.style, BackgroundColorMarker)

C4_Witness ==
    /\ flag = <<TRUE>>
    /\ row.hasStyle
    /\ row.style = <<"background", ":", "#ffcccc">>

\* the last call returned a frame
Returned == call.done /\ result.raised = "none"

Marked == find_tables(call.html)

\* the records of the frame that come from marked table i
RecordsOf(i) == SelectSeq(result.rows, LAMBDA r : r.tbl = i)

\* the rows of table t that the parser turns into records
ParsedRows(t) == {j \in 1..Len(t.trs) : ParsedRow(t, j)}

\* C3: markup without a marked table gives an empty dataset and no error.
C3_NoTablesGivesEmpty ==
    (call.done /\ call.parsed /\ Marked = <<>>) =>
        (result.raised = "none" /\ result.rows = <<>>)

\* C5: a table's records carry the eligible field exactly when the number of
\* flags equals the number of parsed rows; the value on a record is then the
\* flag of the body row the record was parsed from.
C5_FlagsBelongToTheirRows ==
    Returned =>
        \A i \in 1..Len(Marked) :
            LET t == Marked[i]
                recs == RecordsOf(i)
                equal == Len(Eligibility(t)) = Cardinality(ParsedRows(t))
            IN  \A k \in 1..Len(recs) :
                    /\ recs[k].eligible # <<>> <=> equal
                    /\ equal => recs[k].eligible = <<RowEligible(t.trs[recs[k].tr])>>

\* the parsed rows of the marked tables: <<table, row>>
AllParsedRows ==
    UNION {{<<i, j>> : j \in ParsedRows(Marked[i])} : i \in 1..Len(Marked)}

\* C6: the dataset has as many rows as the tables have parsed rows together,
\* the rows of an earlier table come before those of a later one, and the
\* rows of one table keep their order in the markup.
C6_RowsInDocumentOrder ==
    Returned =>
        /\ Len(Marked) >= 1
        /\ {<<result.rows[k].tbl, result.rows[k].tr>> : k \in 1..Len(result.rows)}
              = AllParsedRows
        /\ Len(result.rows) = Cardinality(AllParsedRows)
        /\ \A a, b \in 1..Len(result.rows) :
              a < b =>
                 \/ result.rows[a].tbl < result.rows[b].tbl
                 \/ /\ result.rows[a].tbl = result.rows[b].tbl
                    /\ result.rows[a].tr < result.rows[b].tr

C6_Witness ==
    /\ Returned /\ Len(call.html) = 2 /\ Len(Marked) = 2
    /\ Len(RecordsOf(1)) = 2 /\ Len(RecordsOf(2)) = 1
    /\ Len(result.rows) = 3

\* the names the columns of table t flatten to
FlatNamesOf(t, i) ==
    {flatten_col(TableFrame(t, i).columns[k]) : k \in 1..Len(TableFrame(t, i).columns)}

\* C8: the dataset's columns are the union of the tables' flattened names,
\* each name once: raw headers that flatten to one name share one column.
C8_ColumnsAreUnionOfFlatNames ==
    Returned =>
        /\ {result.columns[k] : k \in 1..Len(result.columns)}
              = UNION {FlatNamesOf(Marked[i], i) : i \in 1..Len(Marked)}
        /\ \A a, b \in 1..Len(result.columns) :
              a # b => result.columns[a] # result.columns[b]

\* C9: a marked table with h >= 1 header rows whose n body rows are all well
\* formed yields n flags, one per body row, and its records get the field.
C9_FlagsSkipEveryHeaderRow ==
    Returned =>
        \A i \in 1..Len(Marked) :
            LET t == Marked[i]
                h == HeaderCount(t.trs)
                recs == RecordsOf(i)
            IN  (h >= 1 /\ Len(t.trs) > h /\ ParsedRows(t) = (h + 1)..Len(t.trs)) =>
                    /\ Len(Eligibility(t)) = Len(t.trs) - h
                    /\ \A k \in 1..Len(recs) : recs[k].eligible # <<>>

\* C7 as stated: flatten_col joins the parts that are neither empty nor blank
\* with underscores, lower-cased and with spaces replaced; flattening the
\* result again returns it unchanged.
C7_JoinsNonBlankParts ==
    flat # <<>> =>
        /\ LET kept == SelectSeq(col.parts, LAMBDA p : Strip(p) # <<>>)
           IN  flat[1] = Join([i \in 1..Len(kept) |-> Lower(ReplaceSpace(Strip(kept[i])))])
        /\ Len(flat) = 2 => flat[2] = flat[1]

\* C7 amended: for a single label flatten_col returns the label stripped, with
\* spaces replaced by underscores, lower-cased; for a tuple it drops the parts
\* that are empty or are the text "nan", and joins the others, each so
\* normalised, with underscores, so that a blank part contributes no text but
\* keeps its underscore; ("Name", "Full") gives "name_full", "Country" gives
\* "country", and flattening a result returns it unchanged.
C7_JoinsNonEmptyParts ==
    /\ flat # <<>> =>
          /\ LET kept == IF col.tuple
                         THEN SelectSeq(col.parts, LAMBDA p : Len(p) > 0 /\ p # NanStr)
                         ELSE col.parts
             IN  flat[1] = Join([i \in 1..Len(kept) |-> Lower(ReplaceSpace(Strip(kept[i])))])
          /\ \A k \in 1..Len(flat[1]) : flat[1][k] \notin {" ", "N"}
          /\ Len(flat) = 2 => flat[2] = flat[1]
    /\ flatten_col(TupleCol(<<<<"N", "a", "m", "e">>, <<"F", "u", "l", "l">>>>))
          = <<"n", "a", "m", "e", "_", "f", "u", "l", "l">>
    /\ flatten_col(StrCol(<<"C", "o", "u", "n", "t", "r", "y">>))
          = <<"c", "o", "u", "n", "t", "r", "y">>

C7_Witness ==
    /\ col = TupleCol(<<<<"N">>, <<" ">>>>)
    /\ flat = <<<<"n", "_">>, <<"n", "_">>>>

=============================================================================
